---- MODULE Spec2Model ----
(***************************************************************************)
(* Model of web_backend/database/database_user.go: the T_user entity, its  *)
(* BeforeSave sanitization hook and the repository functions Create, Save, *)
(* Delete, GetUsers, GetAdministrators, GetUser and GetUserByMail working  *)
(* on the shared backendDb handle.                                         *)
(*                                                                         *)
(* A Go string is a sequence of bytes (naturals below 256), so that        *)
(* len(s), s[:1], strings.ToLower/ToUpper and the HTML sanitizer are       *)
(* computed on bytes and UTF-8 sequences as the Go code computes them.     *)
(***************************************************************************)
EXTENDS Integers, Sequences, FiniteSets, TLC

\* db: the users table; nextId: the next value of its primary key sequence;
\* pc: where the client stands; arg: the call it made; mem: the user struct
\* it passed, as the call left it; ret: what the call returned
VARIABLES db, nextId, pc, arg, mem, ret

vars == <<db, nextId, pc, arg, mem, ret>>

(***************************************************************************)
(* Bounds of the model.                                                    *)
(***************************************************************************)
\* longest input string (in characters) given to the sanitization hook
MaxLen == 2
\* largest primary key the store's sequence hands out
MaxId == 2

(***************************************************************************)
(* Strings: characters of the input alphabet as UTF-8 byte sequences.      *)
(***************************************************************************)
Empty == <<>>
ch_a == <<97>>
ch_A == <<65>>
ch_lt == <<60>>
ch_gt == <<62>>
ch_amp == <<38>>
ch_auml == <<195, 164>>
ch_Auml == <<195, 132>>
RuneError == <<239, 191, 189>>

Chars == {ch_a, ch_A, ch_lt, ch_gt, ch_amp, ch_auml}

RECURSIVE StrUpTo(_)
StrUpTo(n) ==
    IF n = 0 THEN {Empty}
    ELSE LET shorter == StrUpTo(n - 1)
         IN  shorter \cup {s \o c : s \in shorter, c \in Chars}

Drop(s, n) == SubSeq(s, n + 1, Len(s))
Take(s, n) == SubSeq(s, 1, n)

IsLower(b) == b >= 97 /\ b <= 122
IsUpper(b) == b >= 65 /\ b <= 90
IsLetter(b) == IsLower(b) \/ IsUpper(b)
IsAlnum(b) == IsLetter(b) \/ (b >= 48 /\ b <= 57)
IsCont(b) == b >= 128 /\ b <= 191
IsASCII(s) == \A i \in 1..Len(s) : s[i] < 128

\* utf8.DecodeRuneInString: the width of the rune s starts with, 0 for an
\* invalid byte (which decodes to RuneError with width 1).
RuneWidth(s) ==
    IF s[1] < 128 THEN 1
    ELSE IF s[1] >= 194 /\ s[1] <= 223 /\ Len(s) >= 2 /\ IsCont(s[2]) THEN 2
    ELSE IF s[1] >= 225 /\ s[1] <= 239 /\ Len(s) >= 3 /\ IsCont(s[2]) /\ IsCont(s[3]) THEN 3
    ELSE 0

\* unicode.ToUpper / unicode.ToLower on one valid rune (ASCII and Latin-1 letters)
UpperRune(r) ==
    IF Len(r) = 1 THEN (IF IsLower(r[1]) THEN <<r[1] - 32>> ELSE r)
    ELSE IF Len(r) = 2 /\ r[1] = 195 /\ r[2] >= 160 /\ r[2] <= 190 /\ r[2] # 183
         THEN <<195, r[2] - 32>>
    ELSE r

LowerRune(r) ==
    IF Len(r) = 1 THEN (IF IsUpper(r[1]) THEN <<r[1] + 32>> ELSE r)
    ELSE IF Len(r) = 2 /\ r[1] = 195 /\ r[2] >= 128 /\ r[2] <= 158 /\ r[2] # 151
         THEN <<195, r[2] + 32>>
    ELSE r

\* strings.Map(unicode.ToUpper, s): every rune mapped, every invalid byte
\* replaced by utf8.RuneError
RECURSIVE MapUpper(_)
MapUpper(s) ==
    IF s = Empty THEN Empty
    ELSE LET w == RuneWidth(s)
         IN  IF w = 0 THEN RuneError \o MapUpper(Drop(s, 1))
             ELSE UpperRune(Take(s, w)) \o MapUpper(Drop(s, w))

RECURSIVE MapLower(_)
MapLower(s) ==
    IF s = Empty THEN Empty
    ELSE LET w == RuneWidth(s)
         IN  IF w = 0 THEN RuneError \o MapLower(Drop(s, 1))
             ELSE LowerRune(Take(s, w)) \o MapLower(Drop(s, w))

\* strings.ToUpper: byte-wise on ASCII input, strings.Map otherwise
ToUpper(s) ==
    IF IsASCII(s) THEN [i \in 1..Len(s) |-> IF IsLower(s[i]) THEN s[i] - 32 ELSE s[i]]
    ELSE MapUpper(s)

\* strings.ToLower
ToLower(s) ==
    IF IsASCII(s) THEN [i \in 1..Len(s) |-> IF IsUpper(s[i]) THEN s[i] + 32 ELSE s[i]]
    ELSE MapLower(s)

(***************************************************************************)
(* bluemonday.StrictPolicy().Sanitize: the HTML tokenizer splits the input *)
(* into tags and text, every tag is dropped, and every text token is       *)
(* entity-unescaped by the tokenizer and HTML-escaped again on output.     *)
(***************************************************************************)
e_amp == <<38, 97, 109, 112, 59>>
e_lt == <<38, 108, 116, 59>>
e_gt == <<38, 103, 116, 59>>

\* html.EscapeString on the bytes of the alphabet
RECURSIVE EscapeString(_)
EscapeString(s) ==
    IF s = Empty THEN Empty
    ELSE (IF s[1] = 38 THEN e_amp
          ELSE IF s[1] = 60 THEN e_lt
          ELSE IF s[1] = 62 THEN e_gt
          ELSE <<s[1]>>) \o EscapeString(Drop(s, 1))

\* the named entities that can be spelled with the bytes of the model:
\* name (without '&', with or without ';') -> the byte it stands for
EntityNames ==
    { <<<<97, 109, 112, 59>>, 38>>, <<<<65, 77, 80, 59>>, 38>>,
      <<<<108, 116, 59>>, 60>>,     <<<<76, 84, 59>>, 60>>,
      <<<<103, 116, 59>>, 62>>,     <<<<71, 84, 59>>, 62>>,
      <<<<97, 109, 112>>, 38>>,     <<<<65, 77, 80>>, 38>>,
      <<<<108, 116>>, 60>>,         <<<<76, 84>>, 60>>,
      <<<<103, 116>>, 62>>,         <<<<71, 84>>, 62>> }

IsEntity(n) == \E e \in EntityNames : e[1] = n
EntityValue(n) == (CHOOSE e \in EntityNames : e[1] = n)[2]

\* the length of the longest run of letters and digits s starts with
RECURSIVE AlnumRun(_)
AlnumRun(s) == IF s = Empty \/ ~IsAlnum(s[1]) THEN 0 ELSE 1 + AlnumRun(Drop(s, 1))

\* html.unescapeEntity (attribute = false) on s, which starts with '&':
\* <<the bytes produced, the number of bytes of s consumed>>
EntityReplace(s, rest, n, prefixes) ==
    IF n > 0 /\ IsEntity(Take(rest, n)) THEN <<<<EntityValue(Take(rest, n))>>, n + 1>>
    ELSE IF prefixes # {}
         THEN LET longest == CHOOSE j \in prefixes : \A k \in prefixes : k <= j
              IN  <<<<EntityValue(Take(rest, longest))>>, longest + 1>>
    ELSE <<Take(s, n + 1), n + 1>>

\* the name is looked up as a whole and then by its longest prefix that
\* names an entity without ';'
EntityLookup(s, rest, n) ==
    EntityReplace(s, rest, n, {j \in 2..(n - 1) : IsEntity(Take(rest, j))})

\* rest: s after the '&'; run: the letters and digits rest starts with;
\* n: the length of the entity name, a ';' after the run included
EntityName(s, rest, run) ==
    EntityLookup(s, rest, IF run < Len(rest) /\ rest[run + 1] = 59 THEN run + 1 ELSE run)

UnescapeEntity(s) == EntityName(s, Drop(s, 1), AlnumRun(Drop(s, 1)))

\* html.UnescapeString as the tokenizer applies it to a text token
RECURSIVE Unescape(_)
Unescape(s) ==
    IF s = Empty THEN Empty
    ELSE IF s[1] = 38
         THEN LET r == UnescapeEntity(s) IN r[1] \o Unescape(Drop(s, r[2]))
         ELSE <<s[1]>> \o Unescape(Drop(s, 1))

\* the number of bytes of the tag s starts with ('<', a letter, everything
\* up to and including the next '>' or the end of input), 0 if s starts
\* with no tag
RECURSIVE UpToGt(_)
UpToGt(s) == IF s = Empty THEN 0 ELSE IF s[1] = 62 THEN 1 ELSE 1 + UpToGt(Drop(s, 1))

TagLen(s) ==
    IF Len(s) >= 2 /\ s[1] = 60 /\ IsLetter(s[2]) THEN 1 + UpToGt(Drop(s, 1)) ELSE 0

\* the number of bytes of the text token s starts with: up to the next tag
RECURSIVE TextLen(_)
TextLen(s) == IF s = Empty \/ TagLen(s) > 0 THEN 0 ELSE 1 + TextLen(Drop(s, 1))

RECURSIVE Sanitize(_)
Sanitize(s) ==
    IF s = Empty THEN Empty
    ELSE IF TagLen(s) > 0 THEN Sanitize(Drop(s, TagLen(s)))
    ELSE LET n == TextLen(s)
         IN  EscapeString(Unescape(Take(s, n))) \o Sanitize(Drop(s, n))


(***************************************************************************)
(* T_user.  The modelled fields are the ones the functions of the file     *)
(* read or write by name; Password, Created, LastLogin, Certificate,       *)
(* DbPasswordHash and Ownerships are plain payload and left out.           *)
(***************************************************************************)
NullString == [String |-> Empty, Valid |-> FALSE]
ValidString(s) == [String |-> s, Valid |-> TRUE]

\* the gorm column names of the modelled fields (the primary key aside)
Columns ==
    {"email", "sso_id", "company", "department", "logout_count",
     "active", "admin", "name", "surname", "gender"}

\* the value a user struct holds for a column; an invalid sql.NullString is
\* written as NULL whatever its String is
ColumnValue(user, column) ==
    CASE column = "email" -> user.Email
      [] column = "sso_id" -> (IF user.SsoId.Valid THEN user.SsoId ELSE NullString)
      [] column = "company" -> user.Company
      [] column = "department" -> user.Department
      [] column = "logout_count" -> user.LogoutCount
      [] column = "active" -> user.Active
      [] column = "admin" -> user.Admin
      [] column = "name" -> user.Name
      [] column = "surname" -> user.Surname
      [] column = "gender" -> user.Gender

\* Assign as gorm's Updates(struct) does it: columns whose value is the zero
\* value of their type are skipped
ZeroValue(column) ==
    CASE column \in {"active", "admin"} -> FALSE
      [] column = "logout_count" -> 0
      [] column = "sso_id" -> NullString
      [] OTHER -> Empty

AssignSkippingZeroValues(row, user, columns) ==
    LET written == {c \in columns : ColumnValue(user, c) # ZeroValue(c)}
    IN  [ Id |-> row.Id,
          Email |-> IF "email" \in written THEN user.Email ELSE row.Email,
          SsoId |-> IF "sso_id" \in written THEN user.SsoId ELSE row.SsoId,
          Company |-> IF "company" \in written THEN user.Company ELSE row.Company,
          Department |-> IF "department" \in written THEN user.Department ELSE row.Department,
          LogoutCount |-> IF "logout_count" \in written THEN user.LogoutCount ELSE row.LogoutCount,
          Active |-> IF "active" \in written THEN user.Active ELSE row.Active,
          Admin |-> IF "admin" \in written THEN user.Admin ELSE row.Admin,
          Name |-> IF "name" \in written THEN user.Name ELSE row.Name,
          Surname |-> IF "surname" \in written THEN user.Surname ELSE row.Surname,
          Gender |-> IF "gender" \in written THEN user.Gender ELSE row.Gender ]

\* Assign as gorm's Save without Select does it: every column is written
AssignAllColumns(row, user, columns) ==
    [user EXCEPT !.Id = row.Id, !.SsoId = ColumnValue(user, "sso_id")]

\* the row with the columns named replaced by the values of user
Assign(row, user, columns) ==
    [ Id |-> row.Id,
      Email |-> IF "email" \in columns THEN ColumnValue(user, "email") ELSE row.Email,
      SsoId |-> IF "sso_id" \in columns THEN ColumnValue(user, "sso_id") ELSE row.SsoId,
      Company |-> IF "company" \in columns THEN ColumnValue(user, "company") ELSE row.Company,
      Department |-> IF "department" \in columns THEN ColumnValue(user, "department") ELSE row.Department,
      LogoutCount |-> IF "logout_count" \in columns THEN ColumnValue(user, "logout_count") ELSE row.LogoutCount,
      Active |-> IF "active" \in columns THEN ColumnValue(user, "active") ELSE row.Active,
      Admin |-> IF "admin" \in columns THEN ColumnValue(user, "admin") ELSE row.Admin,
      Name |-> IF "name" \in columns THEN ColumnValue(user, "name") ELSE row.Name,
      Surname |-> IF "surname" \in columns THEN ColumnValue(user, "surname") ELSE row.Surname,
      Gender |-> IF "gender" \in columns THEN ColumnValue(user, "gender") ELSE row.Gender ]

NewUser(email, company, department, name, surname) ==
    [ Id |-> 0,
      Email |-> email,
      SsoId |-> NullString,
      Company |-> IF Len(company) = 0 THEN email ELSE company,
      Department |-> department,
      LogoutCount |-> 0,
      Active |-> TRUE,
      Admin |-> FALSE,
      Name |-> name,
      Surname |-> surname,
      Gender |-> Empty ]

\* user.Gender after lines 104-108
FirstByte(g) == IF Len(g) > 1 THEN Take(g, 1) ELSE g

SanitizeGender(gender) == FirstByte(ToUpper(Sanitize(gender)))

\* BeforeSave without the case folding of lines 81 and 87
BeforeSaveWithoutCaseFolding(user) ==
    [user EXCEPT
        !.Email = Sanitize(@),
        !.SsoId = IF @.Valid THEN ValidString(Sanitize(@.String)) ELSE @,
        !.Name = Sanitize(@),
        !.Surname = Sanitize(@),
        !.Gender = SanitizeGender(@)]

\* the user struct after the hook returned (the hook always returns nil)
BeforeSave(user) ==
    [user EXCEPT
        !.Email = ToLower(Sanitize(@)),
        !.SsoId = IF @.Valid THEN ValidString(ToUpper(Sanitize(@.String))) ELSE @,
        !.Name = Sanitize(@),
        !.Surname = Sanitize(@),
        !.Gender = SanitizeGender(@)]

(***************************************************************************)
(* The store behind backendDb: the users table as a function from the      *)
(* primary keys present to their rows, with the constraints of the gorm    *)
(* tags (email unique, sso_id unique among non-NULL values).               *)
(***************************************************************************)
Ids(table) == DOMAIN table

UniqueOk(table) ==
    \A i, j \in Ids(table) :
        i # j =>
            /\ table[i].Email # table[j].Email
            /\ ~(table[i].SsoId.Valid /\ table[j].SsoId.Valid
                 /\ table[i].SsoId.String = table[j].SsoId.String)

Insert(table, row) == [i \in Ids(table) \cup {row.Id} |-> IF i = row.Id THEN row ELSE table[i]]
Remove(table, id) == [i \in Ids(table) \ {id} |-> table[i]]

NoError == "nil"
InvalidEntity == "invalid entry ID"
Conflict == "unique constraint violation"
StorageError == "storage error"

\* SelectSave as gorm's Save without Select does it: when the UPDATE matches
\* no row, the struct is inserted
SaveUpserting(table, user, columns, fault) ==
    IF fault THEN <<table, 0, StorageError>>
    ELSE LET row == [user EXCEPT !.SsoId = ColumnValue(user, "sso_id")]
             updated == IF user.Id \in Ids(table)
                        THEN [table EXCEPT ![user.Id] = Assign(@, user, columns)]
                        ELSE Insert(table, row)
         IN  IF UniqueOk(updated) THEN <<updated, 1, NoError>>
             ELSE <<table, 0, Conflict>>

\* backendDb.Select(columns).Save(user) for a user with a primary key: gorm
\* runs the BeforeSave hook on the struct and issues
\*   UPDATE users SET <the selected columns> WHERE id = user.Id
\* <<the table afterwards, RowsAffected, the error>>
SelectSave(table, user, columns, fault) ==
    IF fault THEN <<table, 0, StorageError>>
    ELSE IF user.Id \notin Ids(table) THEN <<table, 0, NoError>>
    ELSE LET updated == [table EXCEPT ![user.Id] = Assign(@, user, columns)]
         IN  IF UniqueOk(updated) THEN <<updated, 1, NoError>>
             ELSE <<table, 0, Conflict>>


(***************************************************************************)
(* The repository functions.  Each takes the table and the arguments and   *)
(* gives the table, the user struct and the results the call leaves.       *)
(* fault: the store fails the statement (connection lost, timeout).        *)
(***************************************************************************)

\* T_user.Create, on a struct without primary key: gorm runs BeforeSave,
\* inserts the row under the next key of the sequence and writes the key
\* back to the struct
CreateHooked(table, next, hooked, fault) ==
    LET row == [hooked EXCEPT !.Id = next, !.SsoId = ColumnValue(hooked, "sso_id")]
    IN  IF fault THEN [table |-> table, next |-> next, user |-> hooked, err |-> StorageError]
        ELSE IF ~UniqueOk(Insert(table, row))
             THEN [table |-> table, next |-> next, user |-> hooked, err |-> Conflict]
        ELSE [table |-> Insert(table, row), next |-> next + 1,
              user |-> [hooked EXCEPT !.Id = next], err |-> NoError]

Create(table, next, user, fault) == CreateHooked(table, next, BeforeSave(user), fault)

\* Save without the check of user.Id: gorm's Save inserts a struct that has
\* no primary key, here under the smallest key not in use
SaveWithoutIdCheck(table, user, columns, fault) ==
    LET hooked == BeforeSave(user)
        key == CHOOSE k \in 1..(Cardinality(Ids(table)) + 1) : k \notin Ids(table)
        row == [hooked EXCEPT !.Id = key, !.SsoId = ColumnValue(hooked, "sso_id")]
        res == IF user.Id # 0 THEN SelectSave(table, hooked, columns, fault)
               ELSE IF fault THEN <<table, 0, StorageError>>
               ELSE IF UniqueOk(Insert(table, row)) THEN <<Insert(table, row), 1, NoError>>
               ELSE <<table, 0, Conflict>>
    IN  IF Cardinality(columns) < 1
        THEN [table |-> table, user |-> user, rows |-> 0, err |-> NoError]
        ELSE [table |-> res[1], user |-> hooked, rows |-> res[2], err |-> res[3]]

\* Save without the check of the column list
SaveWithoutColumnCheck(table, user, columns, fault) ==
    IF user.Id = 0
    THEN [table |-> table, user |-> user, rows |-> 0, err |-> InvalidEntity]
    ELSE LET hooked == BeforeSave(user)
             res == SelectSave(table, hooked, columns, fault)
         IN  [table |-> res[1], user |-> hooked, rows |-> res[2], err |-> res[3]]

\* lines 155-160: what Save returns for the result res of the statement
SaveResults(table, hooked, res) ==
    IF res[3] # NoError
    THEN [table |-> table, user |-> hooked, rows |-> 0, err |-> res[3]]
    ELSE [table |-> res[1], user |-> hooked, rows |-> res[2], err |-> NoError]

\* lines 151-160, on the struct the hook left
SaveHooked(table, hooked, columns, fault) ==
    SaveResults(table, hooked, SelectSave(table, hooked, columns, fault))

\* T_user.Save
Save(table, user, columns, fault) ==
    IF Cardinality(columns) < 1
    THEN [table |-> table, user |-> user, rows |-> 0, err |-> NoError]
    ELSE IF user.Id = 0
    THEN [table |-> table, user |-> user, rows |-> 0, err |-> InvalidEntity]
    ELSE SaveHooked(table, BeforeSave(user), columns, fault)

\* T_user.Delete: DELETE FROM users WHERE id = user.Id; gorm refuses a
\* delete without a condition (a zero primary key)
Delete(table, user, fault) ==
    IF fault \/ user.Id = 0 THEN [table |-> table, err |-> StorageError]
    ELSE [table |-> Remove(table, user.Id), err |-> NoError]

\* the orders in which the store may hand out the rows with the keys in ids
RECURSIVE Orders(_, _)
Orders(table, ids) ==
    IF ids = {} THEN {<<>>}
    ELSE UNION {{<<table[i]>> \o rest : rest \in Orders(table, ids \ {i})} : i \in ids}

\* A returned slice or pointer is a record with the flag isNil; a nil slice
\* has no entries and a nil pointer points to no user (here: the zero struct).
ZeroUser == [NewUser(Empty, Empty, Empty, Empty, Empty) EXCEPT !.Active = FALSE]

\* GetUsers: every row, in an order the store chooses (the query has no
\* ORDER BY); the set of results the call may give
GetUsers(table, fault) ==
    IF fault THEN {[entries |-> <<>>, isNil |-> TRUE, err |-> StorageError]}
    ELSE {[entries |-> e, isNil |-> FALSE, err |-> NoError] : e \in Orders(table, Ids(table))}

\* GetAdministrators without the Where clause
GetAdministratorsUnfiltered(table, fault) ==
    IF fault THEN {[entries |-> <<>>, isNil |-> TRUE, err |-> StorageError]}
    ELSE {[entries |-> e, isNil |-> FALSE, err |-> NoError] : e \in Orders(table, Ids(table))}

\* GetAdministrators: Where("admin = true")
GetAdministrators(table, fault) ==
    IF fault THEN {[entries |-> <<>>, isNil |-> TRUE, err |-> StorageError]}
    ELSE {[entries |-> e, isNil |-> FALSE, err |-> NoError] :
            e \in Orders(table, {i \in Ids(table) : table[i].Admin = TRUE})}

\* GetUser: Where("id = ?", id).Limit(1)
GetUser(table, id, fault) ==
    LET found == Orders(table, {i \in Ids(table) : i = id})
    IN  IF fault THEN {[user |-> ZeroUser, isNil |-> TRUE, err |-> StorageError]}
        ELSE {IF Len(e) < 1 THEN [user |-> ZeroUser, isNil |-> TRUE, err |-> NoError]
              ELSE [user |-> e[1], isNil |-> FALSE, err |-> NoError] : e \in found}

\* GetUserByMail without the conversion of line 246
GetUserByMailWithoutToLower(table, mail, fault) ==
    LET found == Orders(table, {i \in Ids(table) : table[i].Email = mail})
    IN  IF fault THEN {[user |-> ZeroUser, isNil |-> TRUE, err |-> StorageError]}
        ELSE {IF Len(e) < 1 THEN [user |-> ZeroUser, isNil |-> TRUE, err |-> NoError]
              ELSE [user |-> e[1], isNil |-> FALSE, err |-> NoError] : e \in found}

\* GetUserByMail: Where("email = ?", strings.ToLower(mail)).Limit(1)
GetUserByMail(table, mail, fault) ==
    LET key == ToLower(mail)
        found == Orders(table, {i \in Ids(table) : table[i].Email = key})
    IN  IF fault THEN {[user |-> ZeroUser, isNil |-> TRUE, err |-> StorageError]}
        ELSE {IF Len(e) < 1 THEN [user |-> ZeroUser, isNil |-> TRUE, err |-> NoError]
              ELSE [user |-> e[1], isNil |-> FALSE, err |-> NoError] : e \in found}

(***************************************************************************)
(* One client calls the repository functions one after the other, with any *)
(* user struct as argument: a fresh one, a current copy of a row, or a     *)
(* copy that went stale because the row was changed or deleted since.      *)
(***************************************************************************)
None == "none"

Init ==
    /\ db = <<>>
    /\ nextId = 1
    /\ pc = "idle"
    /\ arg = None
    /\ mem = None
    /\ ret = None

\* user := NewUser(...); user.SsoId = ssoId; user.Admin = admin; user.Create()
CallCreate(emails, companies, ssoIds, admins) ==
    /\ pc = "idle"
    /\ nextId <= MaxId
    /\ \E email \in emails, company \in companies, ssoId \in ssoIds,
          admin \in admins, fault \in BOOLEAN :
         LET new == NewUser(email, company, Empty, ch_a, ch_a)
             user == [new EXCEPT !.SsoId = ssoId, !.Admin = admin]
         IN  \E r \in {Create(db, nextId, user, fault)} :
             /\ db' = r.table
             /\ nextId' = r.next
             /\ arg' = [op |-> "Create", email |-> email, company |-> company,
                        new |-> new, user |-> user, table |-> db, fault |-> fault]
             /\ mem' = r.user
             /\ ret' = [err |-> r.err]
    /\ pc' = "returned"

CallSave(users, columnSets) ==
    /\ pc = "idle"
    /\ \E user \in users, columns \in columnSets, fault \in BOOLEAN :
         \E r \in {Save(db, user, columns, fault)} :
             /\ db' = r.table
             /\ arg' = [op |-> "Save", user |-> user, columns |-> columns,
                        table |-> db, fault |-> fault]
             /\ mem' = r.user
             /\ ret' = [rows |-> r.rows, err |-> r.err]
    /\ pc' = "returned"
    /\ UNCHANGED nextId

CallDelete ==
    /\ pc = "idle"
    /\ \E id \in 0..MaxId, fault \in BOOLEAN :
         LET user == [NewUser(ch_a, ch_a, Empty, ch_a, ch_a) EXCEPT !.Id = id]
             r == Delete(db, user, fault)
         IN  /\ db' = r.table
             /\ arg' = [op |-> "Delete", user |-> user, table |-> db, fault |-> fault]
             /\ mem' = user
             /\ ret' = [err |-> r.err]
    /\ pc' = "returned"
    /\ UNCHANGED nextId

CallGetUsers ==
    /\ pc = "idle"
    /\ \E fault \in BOOLEAN : \E r \in GetUsers(db, fault) :
         /\ arg' = [op |-> "GetUsers", fault |-> fault]
         /\ ret' = r
    /\ pc' = "returned"
    /\ UNCHANGED <<db, nextId, mem>>

CallGetAdministrators ==
    /\ pc = "idle"
    /\ \E fault \in BOOLEAN : \E r \in GetAdministrators(db, fault) :
         /\ arg' = [op |-> "GetAdministrators", fault |-> fault]
         /\ ret' = r
    /\ pc' = "returned"
    /\ UNCHANGED <<db, nextId, mem>>

CallGetUser ==
    /\ pc = "idle"
    /\ \E id \in 0..MaxId, fault \in BOOLEAN : \E r \in GetUser(db, id, fault) :
         /\ arg' = [op |-> "GetUser", id |-> id, fault |-> fault]
         /\ ret' = r
    /\ pc' = "returned"
    /\ UNCHANGED <<db, nextId, mem>>

CallGetUserByMail(mails) ==
    /\ pc = "idle"
    /\ \E mail \in mails, fault \in BOOLEAN : \E r \in GetUserByMail(db, mail, fault) :
         /\ arg' = [op |-> "GetUserByMail", mail |-> mail, fault |-> fault]
         /\ ret' = r
    /\ pc' = "returned"
    /\ UNCHANGED <<db, nextId, mem>>

\* the client takes the results and is ready for its next call
Return ==
    /\ pc = "returned"
    /\ pc' = "idle"
    /\ arg' = None
    /\ mem' = None
    /\ ret' = None
    /\ UNCHANGED <<db, nextId>>

(***************************************************************************)
(* Spec: partial updates.  The client's structs differ in e-mail, company  *)
(* and the active flag; Save is called with every list of these columns.   *)
(***************************************************************************)
Emails == {ch_a, ch_A, ch_a \o ch_a}
Companies == {Empty, ch_a}

\* the structs given to Save
SaveUsers ==
    {[NewUser(e, ch_a, Empty, ch_a, ch_a) EXCEPT !.Id = id, !.Company = c, !.Active = act] :
        id \in 0..MaxId, e \in Emails, c \in Companies, act \in BOOLEAN}

\* the column lists given to Save
ColumnSets == SUBSET {"email", "company", "active"}

Next ==
    \/ CallCreate(Emails, Companies, {NullString}, {FALSE})
    \/ CallSave(SaveUsers, ColumnSets)
    \/ CallDelete
    \/ CallGetUser
    \/ Return

Spec == Init /\ [][Next]_vars


(***************************************************************************)
(* Properties of the partial update, checked under Spec.                   *)
(***************************************************************************)
SaveReturned == pc = "returned" /\ arg.op = "Save"

\* the columns BeforeSave rewrites
SanitizedColumns == {"email", "sso_id", "name", "surname", "gender"}

\* C1: a Save with a non-empty column list on a stored user that returns no
\* error sets every column it names to the value the user struct holds (for
\* the columns the hook does not rewrite: the value the caller put there,
\* zero values included) and leaves the row's other columns and every other
\* row as they were.
C1_SaveWritesTheNamedColumnsOnly ==
    (/\ SaveReturned
     /\ arg.columns # {}
     /\ arg.user.Id \in Ids(arg.table)
     /\ ret.err = NoError)
    => /\ Ids(db) = Ids(arg.table)
       /\ \A c \in Columns :
            LET stored == ColumnValue(db[arg.user.Id], c)
            IN  IF c \in arg.columns
                THEN /\ stored = ColumnValue(mem, c)
                     /\ c \notin SanitizedColumns => stored = ColumnValue(arg.user, c)
                ELSE stored = ColumnValue(arg.table[arg.user.Id], c)
       /\ \A i \in Ids(db) \ {arg.user.Id} : db[i] = arg.table[i]

\* a Save of only the active flag, FALSE in memory and TRUE in the store,
\* from a struct whose e-mail and company differ from the stored ones, while
\* another row is stored
C1_Witness ==
    /\ SaveReturned
    /\ arg.columns = {"active"}
    /\ ret.err = NoError
    /\ arg.user.Id \in Ids(arg.table)
    /\ Cardinality(Ids(arg.table)) = 2
    /\ arg.table[arg.user.Id].Active = TRUE
    /\ arg.user.Active = FALSE
    /\ db[arg.user.Id].Active = FALSE
    /\ arg.user.Email # arg.table[arg.user.Id].Email
    /\ arg.user.Company # arg.table[arg.user.Id].Company

\* C3 as stated: a Save on a user with Id 0 fails with InvalidEntity for
\* every column list, and writes nothing.
C3_SaveWithoutIdFailsForEveryColumnList ==
    (SaveReturned /\ arg.user.Id = 0)
    => (ret.err = InvalidEntity /\ db = arg.table)

\* C3 amended: a Save on a user with Id 0 and a non-empty column list fails
\* with InvalidEntity; with an empty column list it returns 0 and no error;
\* in both cases nothing is written and the struct is left as it was.
C3_SaveWithoutIdFails ==
    (SaveReturned /\ arg.user.Id = 0)
    => /\ ret.err = (IF arg.columns = {} THEN NoError ELSE InvalidEntity)
       /\ ret.rows = 0
       /\ db = arg.table
       /\ mem = arg.user

\* a Save of some columns on a user with Id 0 while rows are stored
C3_Witness ==
    /\ SaveReturned
    /\ arg.user.Id = 0
    /\ arg.columns # {}
    /\ ~arg.fault
    /\ Ids(arg.table) # {}
    /\ ret.err = InvalidEntity

\* C4: a Save with a non-empty column list on a user with Id # 0 never adds
\* or removes a row; when it returns no error, it returns 1 if the row is
\* stored and 0 if it is not; when no row has the Id and the store works, it
\* returns 0 and no error; whenever it returns 0 the store is unchanged.
C4_SaveReturnsRowsAffected ==
    (SaveReturned /\ arg.columns # {} /\ arg.user.Id # 0)
    => /\ Ids(db) = Ids(arg.table)
       /\ ret.rows \in {0, 1}
       /\ ret.err = NoError
            => ret.rows = (IF arg.user.Id \in Ids(arg.table) THEN 1 ELSE 0)
       /\ (arg.user.Id \notin Ids(arg.table) /\ ~arg.fault)
            => (ret.rows = 0 /\ ret.err = NoError)
       /\ ret.rows = 0 => db = arg.table
       /\ ret.err # NoError => ret.rows = 0

\* a Save on a struct whose row was stored and deleted since (its key was
\* handed out), while another row is stored: 0 rows, no error
C4_Witness ==
    /\ SaveReturned
    /\ arg.columns # {}
    /\ arg.user.Id # 0
    /\ arg.user.Id < nextId
    /\ arg.user.Id \notin Ids(arg.table)
    /\ Ids(arg.table) # {}
    /\ ret.rows = 0
    /\ ret.err = NoError

\* C6 as stated: every user NewUser returns and every stored row has a
\* non-empty company, and NewUser with an empty company gives the e-mail as
\* company.
C6_CompanyNeverEmpty ==
    /\ (pc = "returned" /\ arg.op = "Create")
         => /\ arg.new.Company # Empty
            /\ arg.company = Empty => arg.new.Company = arg.email
    /\ \A i \in Ids(db) : db[i].Company # Empty

\* C10: a Save with an empty column list returns 0 and no error, writes
\* nothing and does not run the hook: the struct is as it was.
C10_SaveWithoutColumnsIsNoOp ==
    (SaveReturned /\ arg.columns = {})
    => /\ ret.rows = 0
       /\ ret.err = NoError
       /\ db = arg.table
       /\ mem = arg.user

\* a Save without columns on a stored user whose struct the hook would
\* rewrite and whose values differ from the stored ones
C10_Witness ==
    /\ SaveReturned
    /\ arg.columns = {}
    /\ arg.user.Id \in Ids(arg.table)
    /\ BeforeSave(arg.user) # arg.user
    /\ arg.user.Active # arg.table[arg.user.Id].Active
    /\ ret.rows = 0


(***************************************************************************)
(* SpecLookup: uniqueness and queries.  The client's structs differ in     *)
(* e-mail, SSO id and the admin flag.                                      *)
(***************************************************************************)
LookupEmails == {ch_a, ch_A, ch_auml, ch_Auml}
LookupSsoIds == {NullString, ValidString(ch_a), ValidString(ch_A), ValidString(ch_auml)}

LookupSaveUsers ==
    {[NewUser(e, ch_a, Empty, ch_a, ch_a) EXCEPT !.Id = id, !.SsoId = s, !.Admin = adm] :
        id \in 0..MaxId, e \in LookupEmails, s \in LookupSsoIds, adm \in BOOLEAN}

LookupColumnSets == {{"email"}, {"sso_id"}, {"admin"}, {"email", "sso_id"}}

NextLookup ==
    \/ CallCreate(LookupEmails, {ch_a}, LookupSsoIds, BOOLEAN)
    \/ CallSave(LookupSaveUsers, LookupColumnSets)
    \/ CallDelete
    \/ CallGetUsers
    \/ CallGetAdministrators
    \/ CallGetUserByMail(LookupEmails)
    \/ Return

SpecLookup == Init /\ [][NextLookup]_vars

\* two strings are equal ignoring letter case
SameMail(s, t) == ToLower(s) = ToLower(t)
SameSsoId(s, t) == s.Valid /\ t.Valid /\ ToUpper(s.String) = ToUpper(t.String)

\* C5: no two stored users have e-mails, or present SSO ids, that are equal
\* ignoring letter case; every stored e-mail is lower case and every stored
\* SSO id upper case; a Create whose e-mail or SSO id equals a stored one
\* ignoring case returns an error (the uniqueness violation, unless the
\* store failed) and adds no row.
C5_EmailAndSsoIdUniqueIgnoringCase ==
    /\ \A i, j \in Ids(db) :
         i # j => (~SameMail(db[i].Email, db[j].Email) /\ ~SameSsoId(db[i].SsoId, db[j].SsoId))
    /\ \A i \in Ids(db) :
         /\ db[i].Email = ToLower(db[i].Email)
         /\ db[i].SsoId.String = ToUpper(db[i].SsoId.String)
    /\ (/\ pc = "returned"
        /\ arg.op = "Create"
        /\ \E i \in Ids(arg.table) :
             \/ SameMail(arg.user.Email, arg.table[i].Email)
             \/ SameSsoId(arg.user.SsoId, arg.table[i].SsoId))
       => /\ ret.err = (IF arg.fault THEN StorageError ELSE Conflict)
          /\ db = arg.table

\* a Create refused because its e-mail differs from a stored one in letter
\* case only, its SSO id being free
C5_Witness ==
    /\ pc = "returned"
    /\ arg.op = "Create"
    /\ ret.err = Conflict
    /\ arg.user.SsoId.Valid
    /\ \E i \in Ids(arg.table) :
         /\ arg.user.Email # arg.table[i].Email
         /\ SameMail(arg.user.Email, arg.table[i].Email)
    /\ \A i \in Ids(arg.table) : ~SameSsoId(arg.user.SsoId, arg.table[i].SsoId)
    /\ \E i \in Ids(arg.table) : arg.table[i].SsoId.Valid

QueryReturned == pc = "returned" /\ arg.op \in {"GetUsers", "GetAdministrators"}

\* the rows of a sequence of entries
Range(entries) == {entries[k] : k \in 1..Len(entries)}
Rows(table) == {table[i] : i \in Ids(table)}

\* C7 as stated: GetUsers and GetAdministrators return a sequence, never
\* nil, in every outcome of the call; GetUsers returns every stored user and
\* GetAdministrators the stored users with admin = true.
C7_QueriesNeverReturnNil ==
    QueryReturned
    => /\ ~ret.isNil
       /\ Range(ret.entries) =
            (IF arg.op = "GetUsers" THEN Rows(db) ELSE {r \in Rows(db) : r.Admin})

\* C7 amended: when they return no error, GetUsers and GetAdministrators
\* return a sequence (empty on an empty table), never nil, holding each
\* stored user (GetAdministrators: each with admin = true) once; when the
\* query fails they return nil and the error.
C7_QueriesReturnSequenceUnlessError ==
    QueryReturned
    => IF ret.err = NoError
       THEN /\ ~ret.isNil
            /\ Range(ret.entries) =
                 (IF arg.op = "GetUsers" THEN Rows(db) ELSE {r \in Rows(db) : r.Admin})
            /\ Len(ret.entries) = Cardinality(Range(ret.entries))
            /\ ~arg.fault
       ELSE ret.isNil /\ arg.fault

\* GetAdministrators returning one of two stored users
C7_Witness ==
    /\ QueryReturned
    /\ arg.op = "GetAdministrators"
    /\ ret.err = NoError
    /\ Len(ret.entries) = 1
    /\ Cardinality(Ids(db)) = 2

\* C8: when the query runs, GetUserByMail returns the stored user whose
\* e-mail equals the input ignoring letter case, and nil without an error
\* when there is none.
C8_GetUserByMailIgnoresCase ==
    (pc = "returned" /\ arg.op = "GetUserByMail" /\ ~arg.fault)
    => /\ ret.err = NoError
       /\ \A i \in Ids(db) :
            SameMail(arg.mail, db[i].Email) => (~ret.isNil /\ ret.user = db[i])
       /\ (\A i \in Ids(db) : ~SameMail(arg.mail, db[i].Email)) => ret.isNil

\* a lookup with an upper-case input that finds one of two stored users
C8_Witness ==
    /\ pc = "returned"
    /\ arg.op = "GetUserByMail"
    /\ arg.mail # ToLower(arg.mail)
    /\ ~ret.isNil
    /\ ret.user.Email = ToLower(arg.mail)
    /\ Cardinality(Ids(db)) = 2


(***************************************************************************)
(* SpecHook: the BeforeSave hook applied to a user struct, and applied     *)
(* again to the result.  arg keeps the struct as it was given and as the   *)
(* first application left it.                                              *)
(***************************************************************************)
HookStrings == StrUpTo(MaxLen)

HookUsers ==
    {[NewUser(s1, ch_a, Empty, s2, s1) EXCEPT
        !.SsoId = IF valid THEN ValidString(s1) ELSE NullString, !.Gender = s2] :
        s1 \in HookStrings, s2 \in HookStrings, valid \in BOOLEAN}

InitHook ==
    /\ db = <<>>
    /\ nextId = 1
    /\ pc = "given"
    /\ mem \in HookUsers
    /\ arg = [user |-> mem, once |-> mem]
    /\ ret = None

CallBeforeSave ==
    /\ pc \in {"given", "once"}
    /\ mem' = BeforeSave(mem)
    /\ ret' = [err |-> NoError]
    /\ arg' = IF pc = "given" THEN [arg EXCEPT !.once = mem'] ELSE arg
    /\ pc' = IF pc = "given" THEN "once" ELSE "twice"
    /\ UNCHANGED <<db, nextId>>

SpecHook == InitHook /\ [][CallBeforeSave]_vars

\* a string of at most one character, which is no lower-case letter
AtMostOneUpperCaseCharacter(s) ==
    s = Empty \/ (RuneWidth(s) = Len(s) /\ UpperRune(s) = s)

\* C9 as stated: the hook returns no error; after one application the
\* e-mail is lower case, a present SSO id upper case and the gender at most
\* one upper-case character; a second application changes none of e-mail,
\* SSO id, name, surname and gender.
C9_BeforeSaveIdempotent ==
    /\ pc \in {"once", "twice"} =>
         /\ ret.err = NoError
         /\ mem.Email = ToLower(mem.Email)
         /\ mem.SsoId.Valid => mem.SsoId.String = ToUpper(mem.SsoId.String)
         /\ AtMostOneUpperCaseCharacter(mem.Gender)
    /\ pc = "twice" =>
         /\ mem.Email = arg.once.Email
         /\ mem.SsoId = arg.once.SsoId
         /\ mem.Name = arg.once.Name
         /\ mem.Surname = arg.once.Surname
         /\ mem.Gender = arg.once.Gender

(***************************************************************************)
(* SpecConcurrent: two callers hold a copy of the row with key 1, each     *)
(* changed fields of its copy and calls Save with its own column list; the *)
(* lists are disjoint.  A Save runs the hook on the caller's struct and    *)
(* then issues one UPDATE statement; the statements of the two callers     *)
(* execute in either order.  pc, arg, mem and ret are per caller.          *)
(***************************************************************************)
Callers == {"c1", "c2"}
Other(c) == IF c = "c1" THEN "c2" ELSE "c1"

SharedRow ==
    [NewUser(ch_a, ch_a, Empty, ch_a, ch_a) EXCEPT !.Id = 1, !.SsoId = ValidString(ch_A)]
OtherRow ==
    [NewUser(ch_a \o ch_a, ch_a, Empty, ch_a, ch_a) EXCEPT !.Id = 2]

ConcurrentTables == {<<SharedRow>>, <<SharedRow, OtherRow>>}
ConcurrentColumns == {"email", "sso_id", "company", "active"}

\* the copies of the shared row a caller may hold after changing the fields
\* it is going to save
Edited(row, columns) ==
    {[row EXCEPT !.Email = e, !.SsoId = s, !.Company = c, !.Active = act] :
        e \in IF "email" \in columns THEN {ch_A, ch_a \o ch_a, ch_auml} ELSE {row.Email},
        s \in IF "sso_id" \in columns THEN {NullString, ValidString(ch_a \o ch_a)} ELSE {row.SsoId},
        c \in IF "company" \in columns THEN {Empty, ch_A} ELSE {row.Company},
        act \in IF "active" \in columns THEN {FALSE} ELSE {row.Active}}

InitConcurrent ==
    /\ db \in ConcurrentTables
    /\ nextId = 3
    /\ pc = [c \in Callers |-> "called"]
    /\ ret = [c \in Callers |-> None]
    /\ \E cols1 \in SUBSET ConcurrentColumns \ {{}} :
       \E cols2 \in SUBSET (ConcurrentColumns \ cols1) \ {{}} :
       \E user1 \in Edited(SharedRow, cols1), user2 \in Edited(SharedRow, cols2) :
         /\ mem = [c \in Callers |-> IF c = "c1" THEN user1 ELSE user2]
         /\ arg = [c \in Callers |->
                     [op |-> "Save", user |-> mem[c], table |-> db, fault |-> FALSE,
                      columns |-> IF c = "c1" THEN cols1 ELSE cols2]]

\* Save, lines 131-149 and the hook gorm runs before the statement
SaveBegin(c) ==
    /\ pc[c] = "called"
    /\ IF Cardinality(arg[c].columns) < 1
       THEN /\ pc' = [pc EXCEPT ![c] = "returned"]
            /\ ret' = [ret EXCEPT ![c] = [rows |-> 0, err |-> NoError]]
            /\ mem' = mem
       ELSE IF mem[c].Id = 0
       THEN /\ pc' = [pc EXCEPT ![c] = "returned"]
            /\ ret' = [ret EXCEPT ![c] = [rows |-> 0, err |-> InvalidEntity]]
            /\ mem' = mem
       ELSE /\ pc' = [pc EXCEPT ![c] = "hooked"]
            /\ mem' = [mem EXCEPT ![c] = BeforeSave(@)]
            /\ ret' = ret
    /\ UNCHANGED <<db, nextId, arg>>

\* Save, lines 151-160: the UPDATE statement and the results
SaveStatement(c) ==
    /\ pc[c] = "hooked"
    /\ \E fault \in BOOLEAN :
         \E res \in {SelectSave(db, mem[c], arg[c].columns, fault)} :
             /\ db' = res[1]
             /\ ret' = [ret EXCEPT ![c] =
                          IF res[3] # NoError THEN [rows |-> 0, err |-> res[3]]
                          ELSE [rows |-> res[2], err |-> NoError]]
             /\ arg' = [arg EXCEPT ![c].fault = fault]
    /\ pc' = [pc EXCEPT ![c] = "returned"]
    /\ UNCHANGED <<nextId, mem>>

NextConcurrent == \E c \in Callers : SaveBegin(c) \/ SaveStatement(c)

SpecConcurrent == InitConcurrent /\ [][NextConcurrent]_vars

BothReturned == \A c \in Callers : pc[c] = "returned"

\* the caller's new values collide with those of a row other than the
\* shared one
CollidesWithOtherRow(c) ==
    \E i \in Ids(arg[c].table) \ {1} :
        \/ "email" \in arg[c].columns /\ mem[c].Email = arg[c].table[i].Email
        \/ /\ "sso_id" \in arg[c].columns
           /\ mem[c].SsoId.Valid
           /\ arg[c].table[i].SsoId.Valid
           /\ mem[c].SsoId.String = arg[c].table[i].SsoId.String

\* C2: when both Saves returned, in whatever order their steps ran: a Save
\* failed only if the store failed its statement or its own values collide
\* with another row, never because of the other Save; every column a
\* successful caller named holds that caller's value (for the columns the
\* hook does not rewrite: the value the caller put there), every column of a
\* failed caller and every column nobody named holds the value stored
\* before, and the other rows are as before.
C2_DisjointSavesDoNotOverwriteEachOther ==
    BothReturned
    => /\ \A c \in Callers :
            /\ ret[c].err = (IF arg[c].fault THEN StorageError
                             ELSE IF CollidesWithOtherRow(c) THEN Conflict
                             ELSE NoError)
            /\ ret[c].rows = (IF ret[c].err = NoError THEN 1 ELSE 0)
       /\ Ids(db) = Ids(arg["c1"].table)
       /\ \A i \in Ids(db) \ {1} : db[i] = arg["c1"].table[i]
       /\ \A col \in Columns :
            LET stored == ColumnValue(db[1], col)
                writers == {c \in Callers : col \in arg[c].columns /\ ret[c].err = NoError}
            IN  /\ \A c \in writers :
                     /\ stored = ColumnValue(mem[c], col)
                     /\ col \notin SanitizedColumns => stored = ColumnValue(arg[c].user, col)
                /\ writers = {} => stored = ColumnValue(SharedRow, col)

\* both Saves succeeded, one wrote the e-mail and the other the active
\* flag, and each struct still holds the old value of the other's column
C2_Witness ==
    /\ BothReturned
    /\ \A c \in Callers : ret[c].err = NoError /\ ret[c].rows = 1
    /\ \E c \in Callers :
         /\ "email" \in arg[c].columns
         /\ "active" \in arg[Other(c)].columns
         /\ db[1].Email # mem[Other(c)].Email
         /\ db[1].Active # mem[c].Active
         /\ db[1].Email # SharedRow.Email
         /\ db[1].Active # SharedRow.Active

====
